---- MODULE Spec2Model ----
(***************************************************************************)
(* Model of the PDP pipeline of SAM: the orchestrator N_Moving_Objects.py, *)
(* the buffer transform N_T_OB.py, the loader read_config_csv and the part *)
(* of the dashboard host (GUI_streamlit.py) that configures and starts a   *)
(* run.  One Python process is modelled: its module cache (sys.modules),   *)
(* the namespace of N_Moving_Objects, the shared configuration module av,  *)
(* the process environment and the files the pipeline reads and writes.    *)
(*                                                                         *)
(* Numbers are held in thousandths (Unit), so that round(v, 2) is a real   *)
(* operation: 10.125 is the cell 10125 and round(10.125, 2) is 10120.      *)
(***************************************************************************)
EXTENDS Integers, Sequences, FiniteSets, TLC

VARIABLES
    av,              \* the shared configuration module (toggles, flags, current dataset)
    files,           \* the file system: path -> file
    environ,         \* os.environ: AV_DATASET, AV_RESULTS_DIR
    params,          \* the parameters the host's form holds
    host,            \* how the process was started: "script" or "gui"
    gui,             \* the threads of the dashboard process and what they share
    stop_requested,  \* st.session_state.stop_requested
    folder,          \* the adapter modules that exist in the SAM folder
    sys_modules,     \* sys.modules: the modules this process has imported
    globals,         \* names of stage modules bound in N_Moving_Objects' namespace
    pc,              \* position of the orchestrator body
    cur,             \* index of the variant the body is at (1..4)
    stmt,            \* index of the adapter statement the body is at
    already_printed, \* _already_printed, read when the body starts
    phase,           \* the host's position: "none", "script", "import" or "reload"
    runs,            \* number of executions of the orchestrator body started
    requests,        \* number of host requests started
    outcome,         \* how the last body execution ended
    dirs,            \* the directories that exist
    selected,        \* the run and variant that last selected the current dataset (history)
    start_files,     \* the file system when the current body execution started (history)
    log              \* what the process did, in order (history)

vars == <<av, files, environ, params, host, gui, stop_requested, folder, sys_modules, globals, pc, cur, stmt,
          already_printed, phase, runs, requests, outcome, dirs, selected, start_files, log>>

----------------------------------------------------------------------------
(* Bounds *)

MaxRequests == 1   \* host requests (Run Analysis) per process
MaxEnabled == 1    \* adapter toggles a request switches on
MaxMissing == 1    \* stage modules absent from the SAM folder
MaxSessions == 2   \* browser sessions of one dashboard process
MaxLaunches == 1   \* Run Analysis requests of one session
MaxStale == 1      \* artifacts an earlier process left on disk
BufX == 2          \* the buffer_x the host applies
BufY == 3          \* the buffer_y the host applies

----------------------------------------------------------------------------
(* Names *)

Variants == <<"fundamental", "buffer", "rough", "bufferrough">>

ToggleField == [fundamental |-> "PDPg_fundamental", buffer |-> "PDPg_buffer",
                rough |-> "PDPg_rough", bufferrough |-> "PDPg_bufferrough"]

ActiveField == [fundamental |-> "PDPg_fundamental_active",
                buffer |-> "PDPg_buffer_active",
                rough |-> "PDPg_rough_active",
                bufferrough |-> "PDPg_bufferrough_active"]

\* the adapters imported at the top of the orchestrator, in statement order
TopOrder == <<"N_VA_StaticAbsolute", "N_VA_TennisCourt">>

\* the distance-matrix statement comes second
StageOrderMut == <<"N_VA_HeatMap", "N_PDP", "N_VA_HClust", "N_VA_Mds", "N_VA_TopK">>

\* the adapters each variant runs, in statement order
StageOrder == <<"N_PDP", "N_VA_HeatMap", "N_VA_HClust", "N_VA_Mds", "N_VA_TopK">>

Range(s) == {s[i] : i \in DOMAIN s}

TopAdapters == Range(TopOrder)
StageAdapters == Range(StageOrder)
Adapters == TopAdapters \cup StageAdapters

----------------------------------------------------------------------------
(* Files and paths *)

Unit == 10 * 10 * 10

\* the cells of a csv file: a number, a text that is no number, and one of
\* the texts pandas reads as a missing value (NA, null, an empty cell)
Num(v) == [num |-> TRUE, na |-> FALSE, v |-> v]
Txt == [num |-> FALSE, na |-> FALSE, v |-> 0]
Na == [num |-> FALSE, na |-> TRUE, v |-> 0]

Absent == [exists |-> FALSE, rows |-> <<>>]
File(rows) == [exists |-> TRUE, rows |-> rows]

Dirs == {"cwd", "res"}

Join(d, name) == <<d, name>>

SourcePath == Join("data", "N_C_Dataset.csv")
FundName == "N_C_PDPg_fundamental_Dataset.csv"
BufName == "N_C_PDPg_buffer_Dataset.csv"

\* the value of an environment variable that holds a path and is not set
Unset == Join("", "")

Paths == {SourcePath} \cup {Join(d, n) : d \in Dirs, n \in {FundName, BufName}}

\* os.environ.get('AV_RESULTS_DIR', os.getcwd())
ResultsDir(e) == IF e.AV_RESULTS_DIR = "unset" THEN "cwd" ELSE e.AV_RESULTS_DIR

----------------------------------------------------------------------------
(* The loader: read_config_csv *)

\* max of a non-empty set of integers
SetMax(S) == CHOOSE m \in S : \A n \in S : n <= m

\* int(v): truncation towards zero of a number held in thousandths
IntOf(v) == IF v >= 0 THEN v \div Unit ELSE -((-v) \div Unit)

\* the cells of column i that are not NaN: pandas fills the missing cells
\* of a short row with NaN and reads a missing-value text as NaN, which
\* to_numeric lets through and max() skips
Column(rows, i) ==
    {rows[j][i] : j \in {k \in DOMAIN rows : Len(rows[k]) >= i /\ ~rows[k][i].na}}

\* the records come out last first
FrameMut(rows) ==
    [j \in DOMAIN rows |->
        [i \in 1..5 |-> IF i <= Len(rows[Len(rows) + 1 - j])
                            THEN rows[Len(rows) + 1 - j][i] ELSE Na]]

\* df_num.values.tolist(): one record of 5 cells for every line of the file,
\* in the order of the lines, with NaN for the cells a short line lacks
Frame(rows) ==
    [j \in DOMAIN rows |-> [i \in 1..5 |-> IF i <= Len(rows[j]) THEN rows[j][i] ELSE Na]]

\* an error of the loader; ncols is the column count its message names
\* (0 where the message names none)
LoadError(kind) ==
    [ok |-> FALSE, err |-> kind, ncols |-> 0, con |-> 0, tst |-> 0, poi |-> 0,
     L_dataset |-> <<>>]

\* read_config_csv(path) on the file at that path: the error it raises, or
\* the records and the cardinalities con, tst, poi it returns
read_config_csv(f) ==
    IF ~f.exists THEN LoadError("FileNotFoundError")
    ELSE IF Len(f.rows) = 0 THEN LoadError("EmptyDataError")
    ELSE LET ncols == Len(f.rows[1])
         IN  IF \E j \in DOMAIN f.rows : Len(f.rows[j]) > ncols
                 THEN LoadError("ParserError")
             ELSE IF ncols # 5 THEN [LoadError("ValueError") EXCEPT !.ncols = ncols]
             ELSE IF \E i \in 1..5 : \E c \in Column(f.rows, i) : ~c.num
                 THEN LoadError("ValueError")
             \* int() of the maximum of a column of NaN only
             ELSE IF \E i \in 1..3 : Column(f.rows, i) = {}
                 THEN LoadError("ValueError")
             ELSE [ok |-> TRUE, err |-> "none", ncols |-> 0,
                   con |-> IntOf(SetMax({c.v : c \in Column(f.rows, 1)})) + 1,
                   tst |-> IntOf(SetMax({c.v : c \in Column(f.rows, 2)})) + 1,
                   poi |-> IntOf(SetMax({c.v : c \in Column(f.rows, 3)})) + 1,
                   L_dataset |-> Frame(f.rows)]

----------------------------------------------------------------------------
(* The buffer transform: N_T_OB *)

\* round(v, 2) of a number held in thousandths (ties to even)
Round2(v) ==
    LET r == v % 10
        down == v - r
    IN  IF r < 5 THEN down
        ELSE IF r > 5 THEN down + 10
        ELSE IF (down \div 10) % 2 = 0 THEN down ELSE down + 10

\* the y rows are shifted by buffer_x
ExpandMut(line, buffer_x, buffer_y) ==
    LET pid(k) == Num(Round2(line[3].v * 5 + k * Unit))
    IN  << <<line[1], line[2], pid(0), Num(Round2(line[4].v - buffer_x * Unit)), line[5]>>,
           <<line[1], line[2], pid(1), Num(Round2(line[4].v + buffer_x * Unit)), line[5]>>,
           <<line[1], line[2], pid(2), line[4], line[5]>>,
           <<line[1], line[2], pid(3), line[4], Num(Round2(line[5].v - buffer_x * Unit))>>,
           <<line[1], line[2], pid(4), line[4], Num(Round2(line[5].v + buffer_x * Unit))>> >>

\* the five rows appended for one source row of at least 5 fields
Expand(line, buffer_x, buffer_y) ==
    LET pid(k) == Num(Round2(line[3].v * 5 + k * Unit))
    IN  << <<line[1], line[2], pid(0), Num(Round2(line[4].v - buffer_x * Unit)), line[5]>>,
           <<line[1], line[2], pid(1), Num(Round2(line[4].v + buffer_x * Unit)), line[5]>>,
           <<line[1], line[2], pid(2), line[4], line[5]>>,
           <<line[1], line[2], pid(3), line[4], Num(Round2(line[5].v - buffer_y * Unit))>>,
           <<line[1], line[2], pid(4), line[4], Num(Round2(line[5].v + buffer_y * Unit))>> >>

\* float() of a cell that is no number raises ValueError
Convertible(line) == line[3].num /\ line[4].num /\ line[5].num

\* a row of exactly 5 fields is skipped as well
RECURSIVE BufferLinesMut(_, _, _)
BufferLinesMut(rows, buffer_x, buffer_y) ==
    IF rows = <<>> THEN <<>>
    ELSE LET line == Head(rows)
             rest == BufferLinesMut(Tail(rows), buffer_x, buffer_y)
         IN  IF Len(line) <= 5 THEN rest
             ELSE Expand(line, buffer_x, buffer_y) \o rest

\* the rows written for the rows read: for line in csv_reader (lines 50-59)
RECURSIVE BufferLines(_, _, _)
BufferLines(rows, buffer_x, buffer_y) ==
    IF rows = <<>> THEN <<>>
    ELSE LET line == Head(rows)
             rest == BufferLines(Tail(rows), buffer_x, buffer_y)
         IN  IF Len(line) < 5 THEN rest
             ELSE Expand(line, buffer_x, buffer_y) \o rest

\* the output file is opened for appending
N_T_OBMut(fs, ds, e, a) ==
    LET dataset_path == IF e.AV_DATASET = Unset THEN a.dataset_name ELSE e.AV_DATASET
        results_dir == ResultsDir(e)
        output_path == Join(results_dir, BufName)
        src == fs[dataset_path]
    IN  IF ~src.exists
            THEN [ok |-> FALSE, err |-> "FileNotFoundError", input |-> dataset_path, fs |-> fs]
        ELSE IF results_dir \notin ds
            THEN [ok |-> FALSE, err |-> "FileNotFoundError", input |-> dataset_path, fs |-> fs]
        ELSE [ok |-> TRUE, err |-> "none", input |-> dataset_path,
              fs |-> [fs EXCEPT ![output_path] =
                         File(fs[output_path].rows
                              \o BufferLines(src.rows, a.buffer_x, a.buffer_y))]]

\* the output file is overwritten from its start without being truncated
N_T_OBKeepMut(fs, ds, e, a) ==
    LET dataset_path == IF e.AV_DATASET = Unset THEN a.dataset_name ELSE e.AV_DATASET
        results_dir == ResultsDir(e)
        output_path == Join(results_dir, BufName)
        src == fs[dataset_path]
        new == BufferLines(src.rows, a.buffer_x, a.buffer_y)
        old == fs[output_path].rows
    IN  IF ~src.exists
            THEN [ok |-> FALSE, err |-> "FileNotFoundError", input |-> dataset_path, fs |-> fs]
        ELSE IF \E j \in DOMAIN src.rows : Len(src.rows[j]) >= 5 /\ ~Convertible(src.rows[j])
            THEN [ok |-> FALSE, err |-> "ValueError", input |-> dataset_path, fs |-> fs]
        ELSE IF results_dir \notin ds
            THEN [ok |-> FALSE, err |-> "FileNotFoundError", input |-> dataset_path, fs |-> fs]
        ELSE [ok |-> TRUE, err |-> "none", input |-> dataset_path,
              fs |-> [fs EXCEPT ![output_path] =
                         File(new \o SubSeq(old, Len(new) + 1, Len(old)))]]

\* one execution of the module N_T_OB: the error it raises, or the file
\* system after it has written its output
N_T_OB(fs, ds, e, a) ==
    LET dataset_path == IF e.AV_DATASET = Unset THEN a.dataset_name ELSE e.AV_DATASET
        results_dir == ResultsDir(e)
        output_path == Join(results_dir, BufName)
        src == fs[dataset_path]
    IN  IF ~src.exists
            THEN [ok |-> FALSE, err |-> "FileNotFoundError", input |-> dataset_path, fs |-> fs]
        ELSE IF \E j \in DOMAIN src.rows : Len(src.rows[j]) >= 5 /\ ~Convertible(src.rows[j])
            THEN [ok |-> FALSE, err |-> "ValueError", input |-> dataset_path, fs |-> fs]
        ELSE IF results_dir \notin ds
            THEN [ok |-> FALSE, err |-> "FileNotFoundError", input |-> dataset_path, fs |-> fs]
        ELSE [ok |-> TRUE, err |-> "none", input |-> dataset_path,
              fs |-> [fs EXCEPT ![output_path] =
                         File(BufferLines(src.rows, a.buffer_x, a.buffer_y))]]

----------------------------------------------------------------------------
(* Inputs *)

GoodRows ==
    << <<Num(0), Num(0), Num(0), Num(10 * Unit), Num(20 * Unit)>>,
       <<Num(0), Num(0), Num(Unit), Num(10 * Unit + 125), Num(20 * Unit)>> >>

\* a dataset of four columns
BadRows == << <<Num(0), Num(0), Num(0), Num(10 * Unit)>> >>

\* artifacts an earlier process left behind
OldFundRows == << <<Num(0), Num(0), Num(2 * Unit), Num(Unit), Num(Unit)>> >>
OldBufRows == BufferLines(OldFundRows, 1, 1)

\* a dataset with a cell that is no number, and one with a cell that
\* pandas reads as a missing value
TxtRows == << <<Num(0), Num(0), Num(0), Txt, Num(20 * Unit)>> >>
NaRows == << <<Num(0), Num(0), Num(0), Na, Num(20 * Unit)>> >>

\* a dataset with a trailing line of fewer than 5 fields
TrailRows ==
    << <<Num(0), Num(0), Num(2 * Unit), Num(10 * Unit), Num(20 * Unit)>>,
       <<Num(0), Num(0)>> >>

SourceFiles ==
    {File(GoodRows), File(BadRows), File(TxtRows), File(NaRows), File(TrailRows), Absent}

----------------------------------------------------------------------------
(* Control positions *)

\* the first statement at or after i whose toggle is 1; Len(order) + 1 if none
NextIn(order, a, i) ==
    LET on == {j \in i..Len(order) : a[order[j]] = 1}
    IN  IF on = {} THEN Len(order) + 1 ELSE CHOOSE j \in on : \A k \in on : j <= k

LeaveStmt == Len(StageOrder) + 1

\* the position after the top-level import statement i - 1
TopPosition(a, i) ==
    IF NextIn(TopOrder, a, i) <= Len(TopOrder)
        THEN [pc |-> "imports", stmt |-> NextIn(TopOrder, a, i)]
        ELSE [pc |-> "variant", stmt |-> 1]

\* the Rough branch is placed before the Buffer branch
AfterVariantMut(v) ==
    IF v = 1 THEN [pc |-> "variant", cur |-> 3]
    ELSE IF v = 3 THEN [pc |-> "variant", cur |-> 2]
    ELSE IF v = 2 THEN [pc |-> "variant", cur |-> 4]
    ELSE [pc |-> "final", cur |-> v]

\* the position after the branch of variant v
AfterVariant(v) ==
    IF v < Len(Variants) THEN [pc |-> "variant", cur |-> v + 1]
                         ELSE [pc |-> "final", cur |-> v]

----------------------------------------------------------------------------
(* The history *)

Event(kind, variant, name) ==
    [ev |-> kind, run |-> runs, variant |-> variant, name |-> name,
     dataset |-> av.dataset_name, card |-> <<av.con, av.tst, av.poi>>,
     selected |-> selected]

----------------------------------------------------------------------------
(* The dashboard process: sessions, launchers and worker threads *)

Sessions == 1..MaxSessions

\* the values of sys.stdout and sys.stderr: the streams of the process, or
\* the LogWriter the worker of session s has made around its log file
Original == <<"original", 0>>
LogWriter(s) == <<"LogWriter", s>>

\* a session that has not started a thread: run_thread is None
NoThread == [pc |-> "none", old_stdout |-> Original, old_stderr |-> Original,
             log_file |-> "none"]

\* the dashboard process before any request: line 31 has set AV_SKIP_LOAD
GuiIdle ==
    [launcher |-> [s \in Sessions |-> "idle"],
     launches |-> [s \in Sessions |-> 0],
     run_thread |-> [s \in Sessions |-> NoThread],
     status |-> [s \in Sessions |-> "none"],
     sys_stdout |-> Original,
     sys_stderr |-> Original,
     AV_SKIP_LOAD |-> "1"]

----------------------------------------------------------------------------
(* The initial state: a fresh process *)

\* the configuration module before a host has applied its parameters
AvDefaults ==
    [PDPg_fundamental |-> 0, PDPg_buffer |-> 0, PDPg_rough |-> 0, PDPg_bufferrough |-> 0,
     PDPg_fundamental_active |-> 0, PDPg_buffer_active |-> 0,
     PDPg_rough_active |-> 0, PDPg_bufferrough_active |-> 0,
     N_VA_StaticAbsolute |-> 0, N_VA_TennisCourt |-> 0,
     N_PDP |-> 0, N_VA_HeatMap |-> 0, N_VA_HClust |-> 0, N_VA_Mds |-> 0, N_VA_TopK |-> 0,
     dataset_name |-> SourcePath, con |-> 0, tst |-> 0, poi |-> 0,
     buffer_x |-> 1, buffer_y |-> 1,
     moving_objects_printed |-> FALSE]

OldFile(p) == IF p[2] = FundName THEN File(OldFundRows) ELSE File(OldBufRows)

\* the file systems a process can start with: a source file (or none) and at
\* most MaxStale artifacts of an earlier process, in directories that exist
InitFiles(e, ds) ==
    LET artifacts == {Join(ResultsDir(e), FundName), Join(ResultsDir(e), BufName),
                      Join("cwd", BufName)}
    IN  {f \in [Paths -> SourceFiles \cup {File(OldFundRows), File(OldBufRows)}] :
            /\ f[SourcePath] \in SourceFiles
            /\ \A p \in Paths \ {SourcePath} :
                  f[p] = Absent \/ (p \in artifacts /\ p[1] \in ds /\ f[p] = OldFile(p))
            /\ Cardinality({p \in Paths \ {SourcePath} : f[p].exists}) <= MaxStale}

Bit(b) == IF b THEN 1 ELSE 0

\* the variant toggles and the adapter selections of a configuration
Toggles == [1..4 -> {0, 1}]
AdapterSets == {S \in SUBSET Adapters : Cardinality(S) <= MaxEnabled}

\* av.py as its user has edited it: the toggles tg and the adapters S are on,
\* the active flags are 0
Config(tg, S) ==
    [AvDefaults EXCEPT
        !.PDPg_fundamental = tg[1], !.PDPg_buffer = tg[2],
        !.PDPg_rough = tg[3], !.PDPg_bufferrough = tg[4],
        !.N_VA_StaticAbsolute = Bit("N_VA_StaticAbsolute" \in S),
        !.N_VA_TennisCourt = Bit("N_VA_TennisCourt" \in S),
        !.N_PDP = Bit("N_PDP" \in S),
        !.N_VA_HeatMap = Bit("N_VA_HeatMap" \in S),
        !.N_VA_HClust = Bit("N_VA_HClust" \in S),
        !.N_VA_Mds = Bit("N_VA_Mds" \in S),
        !.N_VA_TopK = Bit("N_VA_TopK" \in S)]

\* the params dictionary Run Analysis builds from the form: the check boxes
\* tg[2..4] and the selected modules S; Fundamental is fixed at 1 and N_PDP is
\* switched on with every stage that depends on it
HostParams(tg, S) ==
    [PDPg_fundamental |-> 1, PDPg_buffer |-> tg[2],
     PDPg_rough |-> tg[3], PDPg_bufferrough |-> tg[4],
     PDPg_fundamental_active |-> 1, PDPg_buffer_active |-> tg[2],
     PDPg_rough_active |-> tg[3], PDPg_bufferrough_active |-> tg[4],
     N_VA_StaticAbsolute |-> Bit("N_VA_StaticAbsolute" \in S),
     N_VA_TennisCourt |-> Bit("N_VA_TennisCourt" \in S),
     N_PDP |-> Bit(S \cap {"N_PDP", "N_VA_HeatMap", "N_VA_HClust", "N_VA_Mds", "N_VA_TopK"} # {}),
     N_VA_HeatMap |-> Bit("N_VA_HeatMap" \in S),
     N_VA_HClust |-> Bit("N_VA_HClust" \in S),
     N_VA_Mds |-> Bit("N_VA_Mds" \in S),
     N_VA_TopK |-> Bit("N_VA_TopK" \in S),
     buffer_x |-> BufX, buffer_y |-> BufY,
     dataset_name |-> SourcePath,
     results_dir |-> "res"]

\* the environment a Run Analysis request sets (lines 243-246)
HostEnviron(p) == [AV_DATASET |-> p.dataset_name, AV_RESULTS_DIR |-> p.results_dir]

NoEnviron == [AV_DATASET |-> Unset, AV_RESULTS_DIR |-> "unset"]

\* A process is either the orchestrator run as a script, with av.py as
\* edited and the environment of the shell, or the GUI, whose requests
\* overwrite every toggle of av.py and both environment variables (so that
\* av.py and the environment are taken at their defaults there).
Init ==
    /\ host \in {"script", "gui"}
    /\ gui = GuiIdle
    /\ stop_requested = FALSE
    /\ environ \in IF host = "script"
                      THEN [AV_DATASET : {Unset, SourcePath}, AV_RESULTS_DIR : {"unset", "res"}]
                      ELSE {NoEnviron}
    /\ dirs \in {{"cwd", "data"}} \cup
                 (IF host = "script" /\ environ.AV_RESULTS_DIR = "unset"
                     THEN {} ELSE {{"cwd", "data", "res"}})
    /\ files \in InitFiles(IF host = "script" THEN environ
                           ELSE HostEnviron(HostParams(<<1, 0, 0, 0>>, {})), dirs)
    /\ IF host = "script"
          THEN /\ av \in {Config(tg, S) : tg \in Toggles, S \in AdapterSets}
               /\ params = HostParams(<<1, 0, 0, 0>>, {})
          ELSE /\ av = AvDefaults
               /\ params \in {HostParams(tg, S) : tg \in {t \in Toggles : t[1] = 1},
                                                  S \in AdapterSets}
    /\ folder = [a \in Adapters |-> IF a \in TopAdapters THEN "present" ELSE "unknown"]
    /\ sys_modules = {}
    /\ globals = {}
    /\ pc = "idle"
    /\ cur = 1
    /\ stmt = 1
    /\ already_printed = FALSE
    /\ phase = "none"
    /\ runs = 0
    /\ requests = 0
    /\ outcome = "none"
    /\ selected = [run |-> 0, variant |-> "none"]
    /\ start_files = files
    /\ log = <<>>

\* where the dataset a process is started on can lie: its own directory, or
\* the results directory or the working directory under a name the
\* orchestrator uses for an artifact
SourcePlaces == Paths

\* A fresh process started on a loadable dataset at any of these places,
\* with no other file on disk: av.py names the dataset, and so does the form
\* of the GUI, whose default for the path is av.dataset_name
PlacedInit ==
    /\ host \in {"script", "gui"}
    /\ gui = GuiIdle
    /\ stop_requested = FALSE
    /\ environ \in IF host = "script"
                      THEN [AV_DATASET : {Unset}, AV_RESULTS_DIR : {"unset", "res"}]
                      ELSE {NoEnviron}
    /\ dirs = {"cwd", "data", "res"}
    /\ \E place \in SourcePlaces :
          /\ files = [p \in Paths |-> IF p = place THEN File(GoodRows) ELSE Absent]
          /\ IF host = "script"
                THEN /\ av \in {[Config(tg, S) EXCEPT !.dataset_name = place] :
                                    tg \in Toggles, S \in AdapterSets}
                     /\ params = HostParams(<<1, 0, 0, 0>>, {})
                ELSE /\ av = [AvDefaults EXCEPT !.dataset_name = place]
                     /\ params \in {[HostParams(tg, S) EXCEPT !.dataset_name = place] :
                                        tg \in {t \in Toggles : t[1] = 1}, S \in AdapterSets}
    /\ folder = [a \in Adapters |-> IF a \in TopAdapters THEN "present" ELSE "unknown"]
    /\ sys_modules = {}
    /\ globals = {}
    /\ pc = "idle"
    /\ cur = 1
    /\ stmt = 1
    /\ already_printed = FALSE
    /\ phase = "none"
    /\ runs = 0
    /\ requests = 0
    /\ outcome = "none"
    /\ selected = [run |-> 0, variant |-> "none"]
    /\ start_files = files
    /\ log = <<>>

----------------------------------------------------------------------------
(* The hosts *)

\* importlib.reload(av): the assignments of av.py are executed again; an
\* attribute another module has set on av stays
AvReload(a) == [AvDefaults EXCEPT !.moving_objects_printed = a.moving_objects_printed]

\* the hasattr test is missing: every key of params becomes a field
ApplyParamsMut(a, p) ==
    [key \in DOMAIN a \cup DOMAIN p |-> IF key \in DOMAIN p THEN p[key] ELSE a[key]]

\* for key, value in params.items(): if hasattr(av, key): setattr(av, key, value)
ApplyParams(a, p) ==
    [key \in DOMAIN a |-> IF key \in DOMAIN p THEN p[key] ELSE a[key]]

\* the one-shot flag is not read when the body starts
StartBodyMut(a) ==
    /\ runs' = runs + 1
    /\ already_printed' = FALSE
    /\ pc' = TopPosition(a, 1).pc
    /\ stmt' = TopPosition(a, 1).stmt
    /\ cur' = 1
    /\ outcome' = "running"
    /\ start_files' = files
    /\ log' = Append(log, [Event("invoke", "top", "N_Moving_Objects") EXCEPT !.run = runs + 1])

\* the orchestrator body starts: lines 22-25, up to the first import statement
StartBody(a) ==
    /\ runs' = runs + 1
    /\ already_printed' = a.moving_objects_printed
    /\ pc' = TopPosition(a, 1).pc
    /\ stmt' = TopPosition(a, 1).stmt
    /\ cur' = 1
    /\ outcome' = "running"
    /\ start_files' = files
    /\ log' = Append(log, [Event("invoke", "top", "N_Moving_Objects") EXCEPT !.run = runs + 1])

\* python N_Moving_Objects.py: the body runs once, with av.py as it is
RunScript ==
    /\ host = "script"
    /\ pc = "idle"
    /\ runs = 0
    /\ phase' = "script"
    /\ StartBody(av)
    /\ UNCHANGED <<av, files, environ, params, host, gui, stop_requested, folder, sys_modules, globals, dirs,
                   selected, requests>>

\* run_moving_objects_in_background(params): the results directory is made,
\* a request whose dataset is not a file ends with status error; otherwise
\* the environment is set, av is reloaded, the parameters are applied to it,
\* and import N_Moving_Objects runs the body unless the module is cached
RunAnalysis ==
    /\ host = "gui"
    /\ pc = "idle"
    /\ phase = "none"
    /\ requests < MaxRequests
    /\ requests' = requests + 1
    /\ stop_requested' = FALSE
    /\ dirs' = dirs \cup {params.results_dir}
    /\ IF ~files[params.dataset_name].exists
          THEN /\ outcome' = "rejected"
               /\ UNCHANGED <<av, environ, phase, runs, already_printed, pc, stmt, cur,
                              start_files, log>>
          ELSE /\ environ' = HostEnviron(params)
               /\ av' = ApplyParams(AvReload(av), params)
               /\ IF "N_Moving_Objects" \in sys_modules
                     THEN phase' = "reload"
                     ELSE phase' = "import"
               /\ StartBody(av')
    /\ UNCHANGED <<files, params, host, gui, folder, sys_modules, globals, selected>>

\* the Stop Analysis button while the background thread is alive: the flag
\* is set and the page is drawn again; nothing else reads the flag
StopAnalysis ==
    /\ host = "gui"
    /\ phase # "none"
    /\ ~stop_requested
    /\ stop_requested' = TRUE
    /\ UNCHANGED <<av, files, environ, params, host, gui, folder, sys_modules, globals, pc, cur,
                   stmt, already_printed, phase, runs, requests, outcome, dirs, selected,
                   start_files, log>>

\* importlib.reload(N_Moving_Objects) after the import has run the body
Reload ==
    /\ pc = "idle"
    /\ phase = "import"
    /\ outcome = "returned"
    /\ phase' = "reload"
    /\ StartBody(av)
    /\ UNCHANGED <<av, files, environ, params, host, gui, stop_requested, folder, sys_modules, globals, dirs,
                   selected, requests>>

----------------------------------------------------------------------------
(* The orchestrator body: N_Moving_Objects *)

\* the gate tests the toggle of the first branch (a copied branch header)
ToggleMut(a, v) == a[ToggleField[Variants[1]]]

Toggle(a, v) == a[ToggleField[Variants[v]]]

SetActive(a, v, flag) == [a EXCEPT ![ActiveField[Variants[v]]] = flag]

\* poi is carried over from the dataset of the previous variant
SetLoadedMut(a, r) == [a EXCEPT !.con = r.con, !.tst = r.tst]

\* the six fields assigned from read_config_csv (the three data fields are
\* determined by the file; their cardinalities stand for them)
SetLoaded(a, r) == [a EXCEPT !.con = r.con, !.tst = r.tst, !.poi = r.poi]

\* the except clause is a bare pass: nothing is printed
CaughtSilentMut(a, fs, ds, mods, lg, clause) ==
    /\ av' = a
    /\ files' = fs
    /\ dirs' = ds
    /\ sys_modules' = mods
    /\ pc' = "stages"
    /\ stmt' = LeaveStmt
    /\ log' = lg
    /\ UNCHANGED <<environ, params, host, gui, stop_requested, start_files, folder, globals, cur,
                   already_printed, phase, runs, requests, outcome, selected>>

\* the except clause prints the error and the stage statements still run
CaughtMut(a, fs, ds, mods, lg, clause) ==
    /\ av' = a
    /\ files' = fs
    /\ dirs' = ds
    /\ sys_modules' = mods
    /\ pc' = "stages"
    /\ stmt' = NextIn(StageOrder, a, 1)
    /\ log' = Append(lg, Event("diag", Variants[cur], clause))
    /\ UNCHANGED <<environ, params, host, gui, stop_requested, start_files, folder, globals, cur, already_printed,
                   phase, runs, requests, outcome, selected>>

\* an except clause of a variant has caught an error and printed it: the
\* body goes on after the try statement
Caught(a, fs, ds, mods, lg, clause) ==
    /\ av' = a
    /\ files' = fs
    /\ dirs' = ds
    /\ sys_modules' = mods
    /\ pc' = "stages"
    /\ stmt' = LeaveStmt
    /\ log' = Append(lg, Event("diag", Variants[cur], clause))
    /\ UNCHANGED <<environ, params, host, gui, stop_requested, start_files, folder, globals, cur, already_printed,
                   phase, runs, requests, outcome, selected>>

\* the error is caught inside the branch and the body goes on
AbortMut(a, fs, ds, mods, lg, err) ==
    /\ av' = a
    /\ files' = fs
    /\ dirs' = ds
    /\ sys_modules' = mods
    /\ pc' = "stages"
    /\ stmt' = LeaveStmt
    /\ cur' = IF pc = "imports" THEN 1 ELSE cur
    /\ log' = Append(lg, Event("diag", IF pc = "imports" THEN "top" ELSE Variants[cur], err))
    /\ UNCHANGED <<environ, params, host, gui, stop_requested, start_files, folder, globals, already_printed, phase,
                   runs, requests, outcome, selected>>

\* an exception leaves the body: the host's except clause takes over; a
\* failed first import drops the module and its namespace
Abort(a, fs, ds, mods, lg, err) ==
    /\ av' = a
    /\ files' = fs
    /\ dirs' = ds
    /\ sys_modules' = mods
    /\ globals' = IF phase = "import" THEN {} ELSE globals
    /\ pc' = "idle"
    /\ phase' = "none"
    /\ outcome' = "raised"
    /\ log' = Append(lg, Event("raise", IF pc = "imports" THEN "top" ELSE Variants[cur], err))
    /\ UNCHANGED <<environ, params, host, gui, stop_requested, start_files, folder, cur, stmt, already_printed, runs,
                   requests, selected>>

\* where a stage module is looked up in the SAM folder: what the folder
\* holds is fixed for the process and found out at the first lookup
Lookup(name, found) ==
    /\ \/ folder[name] = "present" /\ found
       \/ folder[name] = "absent" /\ ~found
       \/ /\ folder[name] = "unknown"
          /\ found \/ Cardinality({n \in Adapters : folder[n] = "absent"}) < MaxMissing
    /\ folder' = [folder EXCEPT ![name] = IF found THEN "present" ELSE "absent"]

\* lines 29-39: if av.<adapter> == 1: try: import <adapter> except ImportError
\* The body of either adapter reads the file av.dataset_name
TopImport ==
    /\ pc = "imports"
    /\ LET name == TopOrder[stmt]
           next == TopPosition(av, stmt + 1)
           found == folder[name] = "present"
           f == files[av.dataset_name]
       IN  IF name \notin sys_modules /\ found /\ (~f.exists \/ Len(f.rows) = 0)
               THEN Abort(av, files, dirs, sys_modules, log,
                          IF f.exists THEN "EmptyDataError" ELSE "FileNotFoundError")
               ELSE /\ pc' = next.pc
                    /\ stmt' = next.stmt
                    /\ sys_modules' = IF found THEN sys_modules \cup {name} ELSE sys_modules
                    /\ log' = IF name \in sys_modules THEN log
                              ELSE IF found THEN Append(log, Event("stage", "top", name))
                              ELSE Append(log, Event("diag", "top", name))
                    /\ UNCHANGED <<av, files, environ, params, host, gui, stop_requested, start_files, folder, globals, cur,
                                   already_printed, phase, runs, requests, outcome, dirs,
                                   selected>>

\* if av.PDPg_<variant> == 1: with the toggle at 0 the branch is not taken
SkipVariant ==
    /\ pc = "variant"
    /\ Toggle(av, cur) # 1
    /\ pc' = AfterVariant(cur).pc
    /\ cur' = AfterVariant(cur).cur
    /\ UNCHANGED <<av, files, environ, params, host, gui, stop_requested, start_files, folder, sys_modules, globals, stmt, already_printed,
                   phase, runs, requests, outcome, dirs, selected, log>>

\* a variant has selected its dataset: on to its first enabled stage statement
Selected(a, fs, ds, mods, lg) ==
    /\ av' = a
    /\ files' = fs
    /\ dirs' = ds
    /\ sys_modules' = mods
    /\ selected' = [run |-> runs, variant |-> Variants[cur]]
    /\ pc' = "stages"
    /\ stmt' = NextIn(StageOrder, a, 1)
    /\ log' = lg
    /\ UNCHANGED <<environ, params, host, gui, stop_requested, start_files, folder, globals, cur, already_printed, phase, runs, requests,
                   outcome>>

\* lines 91-122
EnterFundamental ==
    /\ pc = "variant"
    /\ cur = 1
    /\ Toggle(av, cur) = 1
    /\ LET a1 == SetActive(av, cur, 1)
           results_dir == ResultsDir(environ)
           ds == dirs \cup {results_dir}
           pdp_dataset_path == Join(results_dir, FundName)
           copy == a1.dataset_name # pdp_dataset_path
           fs == IF copy THEN [files EXCEPT ![pdp_dataset_path] = files[a1.dataset_name]]
                         ELSE files
           a2 == [a1 EXCEPT !.dataset_name = pdp_dataset_path]
           r == read_config_csv(fs[pdp_dataset_path])
           lg == Append(log, Event("enter", Variants[cur], ""))
       IN  IF copy /\ ~files[a1.dataset_name].exists
               THEN Abort(a1, files, ds, sys_modules, lg, "FileNotFoundError")
           ELSE IF ~r.ok
               THEN Abort(a2, fs, ds, sys_modules, lg, r.err)
           ELSE Selected(SetLoaded(a2, r), fs, ds, sys_modules, lg)

\* every import statement executes the module body
ImportN_T_OBMut(a) == N_T_OB(files, dirs, environ, a)

\* import N_T_OB: the module body runs unless the module is cached
ImportN_T_OB(a) ==
    IF "N_T_OB" \in sys_modules
        THEN [ok |-> TRUE, err |-> "none", input |-> Unset, fs |-> files]
        ELSE N_T_OB(files, dirs, environ, a)

TransformLog(t, lg) ==
    IF t.input = Unset THEN lg
    ELSE Append(lg, [Event("transform", Variants[cur], t.err) EXCEPT !.dataset = t.input])

\* lines 158-190
EnterBuffer ==
    /\ pc = "variant"
    /\ cur = 2
    /\ Toggle(av, cur) = 1
    /\ LET a1 == SetActive(av, cur, 1)
           t == ImportN_T_OB(a1)
           results_dir == ResultsDir(environ)
           buffer_dataset_path == Join(results_dir, BufName)
           a2 == [a1 EXCEPT !.dataset_name = buffer_dataset_path]
           r == read_config_csv(t.fs[buffer_dataset_path])
           mods == sys_modules \cup {"N_T_OB"}
           lg == TransformLog(t, Append(log, Event("enter", Variants[cur], "")))
       IN  IF ~t.ok
               THEN Caught(a1, files, dirs, sys_modules, lg,
                           IF t.err = "FileNotFoundError" THEN "FileNotFoundError"
                                                          ELSE "Exception")
           ELSE IF ~t.fs[buffer_dataset_path].exists
               THEN Caught(a1, t.fs, dirs, mods, lg, "FileNotFoundError")
           ELSE IF ~r.ok
               THEN Caught(a2, t.fs, dirs, mods, lg, "Exception")
           ELSE Selected(SetLoaded(a2, r), t.fs, dirs \cup {results_dir}, mods, lg)

\* lines 222-246
EnterRough ==
    /\ pc = "variant"
    /\ cur = 3
    /\ Toggle(av, cur) = 1
    /\ LET a1 == SetActive(av, cur, 1)
           results_dir == ResultsDir(environ)
           pdp_dataset_path == Join(results_dir, FundName)
           a2 == [a1 EXCEPT !.dataset_name = pdp_dataset_path]
           r == read_config_csv(files[pdp_dataset_path])
           lg == Append(log, Event("enter", Variants[cur], ""))
       IN  IF ~r.ok
               THEN Abort(a2, files, dirs, sys_modules, lg, r.err)
           ELSE Selected(SetLoaded(a2, r), files, dirs \cup {results_dir}, sys_modules, lg)

\* lines 265-298
EnterBufferRough ==
    /\ pc = "variant"
    /\ cur = 4
    /\ Toggle(av, cur) = 1
    /\ LET a1 == SetActive(av, cur, 1)
           t == ImportN_T_OB(a1)
           results_dir == ResultsDir(environ)
           ds == dirs \cup {results_dir}
           buffer_cwd == Join("cwd", BufName)
           buffer_results == Join(results_dir, BufName)
           \* shutil.move onto the same file changes nothing
           fs == IF t.fs[buffer_cwd].exists /\ buffer_cwd # buffer_results
                     THEN [t.fs EXCEPT ![buffer_results] = t.fs[buffer_cwd],
                                       ![buffer_cwd] = Absent]
                     ELSE t.fs
           a2 == [a1 EXCEPT !.dataset_name = buffer_results]
           r == read_config_csv(fs[buffer_results])
           mods == sys_modules \cup {"N_T_OB"}
           lg == TransformLog(t, Append(log, Event("enter", Variants[cur], "")))
       IN  IF ~t.ok
               THEN Abort(a1, files, dirs, sys_modules, lg, t.err)
           ELSE IF ~r.ok
               THEN Abort(a2, fs, ds, mods, lg, r.err)
           ELSE Selected(SetLoaded(a2, r), fs, ds, mods, lg)

\* lines 125-151: if av.<stage> == 1: try: import <stage> except ImportError
\* The module body runs only if the module is not cached in sys.modules
ImportStage ==
    /\ pc = "stages"
    /\ cur = 1
    /\ stmt < LeaveStmt
    /\ LET name == StageOrder[stmt]
       IN  \E found \in BOOLEAN :
             /\ IF name \in sys_modules
                  THEN found /\ UNCHANGED folder
                  ELSE Lookup(name, found)
             /\ sys_modules' = IF found THEN sys_modules \cup {name} ELSE sys_modules
             /\ globals' = IF found THEN globals \cup {name} ELSE globals
             /\ log' = IF name \in sys_modules THEN log
                       ELSE IF found THEN Append(log, Event("stage", Variants[cur], name))
                       ELSE Append(log, Event("diag", Variants[cur], name))
    /\ stmt' = NextIn(StageOrder, av, stmt + 1)
    /\ UNCHANGED <<av, files, environ, params, host, gui, stop_requested, start_files, pc, cur, already_printed, phase, runs, requests,
                   outcome, dirs, selected>>

\* lines 193-205, 248-259, 300-311: if av.<stage> == 1: importlib.reload(<stage>)
\* The name is a global of N_Moving_Objects, bound by an import statement of
\* the Fundamental branch; unbound, it raises NameError
ReloadStage ==
    /\ pc = "stages"
    /\ cur > 1
    /\ stmt < LeaveStmt
    /\ LET name == StageOrder[stmt]
       IN  IF name \in globals
               THEN /\ log' = Append(log, Event("stage", Variants[cur], name))
                    /\ stmt' = NextIn(StageOrder, av, stmt + 1)
                    /\ UNCHANGED <<av, files, environ, params, host, gui, stop_requested, start_files, folder, sys_modules, globals, pc, cur,
                                   already_printed, phase, runs, requests, outcome, dirs,
                                   selected>>
           ELSE IF cur = 2
               THEN Caught(av, files, dirs, sys_modules, log, "Exception")
           ELSE Abort(av, files, dirs, sys_modules, log, "NameError")

\* av.PDPg_<variant>_active = 0, the last statement of a branch
LeaveVariant ==
    /\ pc = "stages"
    /\ stmt = LeaveStmt
    /\ av' = SetActive(av, cur, 0)
    /\ pc' = AfterVariant(cur).pc
    /\ cur' = AfterVariant(cur).cur
    /\ UNCHANGED <<files, environ, params, host, gui, stop_requested, start_files, folder, sys_modules, globals, stmt, already_printed,
                   phase, runs, requests, outcome, dirs, selected, log>>

\* lines 320-327; then the body returns to the host
FinalTiming ==
    /\ pc = "final"
    /\ IF ~already_printed
          THEN /\ log' = Append(log, Event("complete", "top", ""))
               /\ av' = [av EXCEPT !.moving_objects_printed = TRUE]
          ELSE UNCHANGED <<log, av>>
    /\ pc' = "idle"
    /\ outcome' = "returned"
    /\ sys_modules' = sys_modules \cup {"N_Moving_Objects"}
    /\ phase' = IF phase = "import" THEN "import" ELSE "none"
    /\ UNCHANGED <<files, environ, params, host, gui, stop_requested, start_files, folder, globals, cur, stmt, already_printed, runs,
                   requests, dirs, selected>>

----------------------------------------------------------------------------

Next ==
    \/ RunScript
    \/ RunAnalysis
    \/ StopAnalysis
    \/ Reload
    \/ TopImport
    \/ SkipVariant
    \/ EnterFundamental
    \/ EnterBuffer
    \/ EnterRough
    \/ EnterBufferRough
    \/ ImportStage
    \/ ReloadStage
    \/ LeaveVariant
    \/ FinalTiming

Spec == Init /\ [][Next]_vars

\* the same program, started on a dataset at any place
PlacedSpec == PlacedInit /\ [][Next]_vars

----------------------------------------------------------------------------
(* The threads of the dashboard: the launcher of each session (the page    *)
(* script handling Run Analysis) and the worker thread it starts. The      *)
(* workers of all sessions share sys.stdout, sys.stderr and os.environ;    *)
(* each session has its own session_state and its own results directory.   *)
(* The pipeline a worker executes is taken as one step that returns or     *)
(* raises.                                                                 *)

\* everything but gui
core == <<av, files, environ, params, host, stop_requested, folder, sys_modules, globals,
          pc, cur, stmt, already_printed, phase, runs, requests, outcome, dirs, selected,
          start_files, log>>

Alive(t) == t.pc \notin {"none", "dead"}

\* lines 519-529: run_thread is None or not alive: a thread is made and
\* started; the launcher goes on to line 530
StartThread(s) ==
    /\ gui.launcher[s] = "idle"
    /\ ~Alive(gui.run_thread[s])
    /\ gui.launches[s] < MaxLaunches
    /\ gui' = [gui EXCEPT !.launcher[s] = "started",
                          !.launches[s] = @ + 1,
                          !.run_thread[s] = [NoThread EXCEPT !.pc = "created"]]
    /\ UNCHANGED core

\* lines 533-536: the launcher writes 'starting' to the status file
WriteStarting(s) ==
    /\ gui.launcher[s] = "started"
    /\ gui' = [gui EXCEPT !.launcher[s] = "idle", !.status[s] = "starting"]
    /\ UNCHANGED core

\* lines 213-230: the worker writes 'running' and the head of the log
WorkerBegin(s) ==
    /\ gui.run_thread[s].pc = "created"
    /\ gui' = [gui EXCEPT !.run_thread[s].pc = "begun", !.status[s] = "running"]
    /\ UNCHANGED core

\* lines 233-249: a dataset that is no file ends the worker with status
\* 'error' (return, then the outer finally); otherwise the environment is set
WorkerValidate(s) ==
    /\ gui.run_thread[s].pc = "begun"
    /\ \E isfile \in BOOLEAN :
          gui' = IF isfile
                    THEN [gui EXCEPT !.run_thread[s].pc = "validated", !.AV_SKIP_LOAD = "0"]
                    ELSE [gui EXCEPT !.run_thread[s].pc = "leaving", !.status[s] = "error"]
    /\ UNCHANGED core

\* lines 252-256: the log file is opened and the current streams are saved
WorkerSave(s) ==
    /\ gui.run_thread[s].pc = "validated"
    /\ gui' = [gui EXCEPT !.run_thread[s] =
                   [pc |-> "saved", old_stdout |-> gui.sys_stdout,
                    old_stderr |-> gui.sys_stderr, log_file |-> "open"]]
    /\ UNCHANGED core

\* lines 270-271
WorkerRedirect(s) ==
    /\ gui.run_thread[s].pc = "saved"
    /\ gui' = [gui EXCEPT !.run_thread[s].pc = "pipeline",
                          !.sys_stdout = LogWriter(s), !.sys_stderr = LogWriter(s)]
    /\ UNCHANGED core

\* lines 273-307: av is reloaded, the parameters are applied and the
\* orchestrator is imported and reloaded; it returns ('finished') or an
\* exception is caught ('error')
WorkerPipeline(s) ==
    /\ gui.run_thread[s].pc = "pipeline"
    /\ \E st \in {"finished", "error"} :
          gui' = [gui EXCEPT !.run_thread[s].pc = "ended", !.status[s] = st]
    /\ UNCHANGED core

\* lines 309-313: the inner finally
WorkerRestore(s) ==
    /\ gui.run_thread[s].pc = "ended"
    /\ gui' = [gui EXCEPT !.run_thread[s].pc = "leaving",
                          !.run_thread[s].log_file = "closed",
                          !.sys_stdout = gui.run_thread[s].old_stdout,
                          !.sys_stderr = gui.run_thread[s].old_stderr]
    /\ UNCHANGED core

\* lines 324-326: the outer finally; the thread ends
WorkerExit(s) ==
    /\ gui.run_thread[s].pc = "leaving"
    /\ gui' = [gui EXCEPT !.run_thread[s].pc = "dead", !.AV_SKIP_LOAD = "1"]
    /\ UNCHANGED core

\* the dashboard process with its sessions, before any request
HostInit ==
    /\ host = "gui"
    /\ gui = GuiIdle
    /\ stop_requested = FALSE
    /\ environ = NoEnviron
    /\ dirs = {"cwd", "data"}
    /\ files = [p \in Paths |-> IF p = SourcePath THEN File(GoodRows) ELSE Absent]
    /\ av = AvDefaults
    /\ params = HostParams(<<1, 0, 0, 0>>, {})
    /\ folder = [a \in Adapters |-> IF a \in TopAdapters THEN "present" ELSE "unknown"]
    /\ sys_modules = {}
    /\ globals = {}
    /\ pc = "idle"
    /\ cur = 1
    /\ stmt = 1
    /\ already_printed = FALSE
    /\ phase = "none"
    /\ runs = 0
    /\ requests = 0
    /\ outcome = "none"
    /\ selected = [run |-> 0, variant |-> "none"]
    /\ start_files = files
    /\ log = <<>>

HostNext ==
    \/ \E s \in Sessions : StartThread(s)
    \/ \E s \in Sessions : WriteStarting(s)
    \/ \E s \in Sessions : WorkerBegin(s)
    \/ \E s \in Sessions : WorkerValidate(s)
    \/ \E s \in Sessions : WorkerSave(s)
    \/ \E s \in Sessions : WorkerRedirect(s)
    \/ \E s \in Sessions : WorkerPipeline(s)
    \/ \E s \in Sessions : WorkerRestore(s)
    \/ \E s \in Sessions : WorkerExit(s)

HostSpec == HostInit /\ [][HostNext]_vars

----------------------------------------------------------------------------
(* Properties *)

VariantIndex(name) == CHOOSE v \in DOMAIN Variants : Variants[v] = name

Events(kind) == {i \in DOMAIN log : log[i].ev = kind}

\* a step of the background thread, as opposed to a step of the page
BodyStep == stop_requested' = stop_requested

\* variant v was entered in the current body execution
Entered(v) == \E i \in Events("enter") : log[i].run = runs /\ log[i].variant = Variants[v]

\* the body is past the gate of variant v
Passed(v) == v < cur \/ (pc = "stages" /\ v = cur) \/ pc = "final"

FundPath == Join(ResultsDir(environ), FundName)
BufPath == Join(ResultsDir(environ), BufName)

C1_Order ==
    /\ \A i, j \in Events("enter") :
          (i < j /\ log[i].run = log[j].run)
              => VariantIndex(log[i].variant) < VariantIndex(log[j].variant)
    /\ (outcome = "running" /\ pc \in {"variant", "stages", "final"})
          => \A v \in DOMAIN Variants :
                Passed(v) => (Entered(v) <=> av[ToggleField[Variants[v]]] = 1)

C1_SkipStep ==
    (pc = "variant" /\ av[ToggleField[Variants[cur]]] = 0)
        => /\ av' = av
           /\ files' = files
           /\ dirs' = dirs
           /\ log' = log
           /\ sys_modules' = sys_modules
           /\ globals' = globals

\* C1: for every combination of the four variant toggles the enabled
\* variants are entered in the order Fundamental, Buffer, Rough, Buffer+Rough,
\* each gate the body has passed was entered exactly if its toggle is 1, and
\* the step past a gate whose toggle is 0 changes no configuration field, no
\* file and runs no adapter.
C1_FixedOrderAndSkip == [](C1_Order) /\ [][C1_SkipStep]_vars

\* a run with Fundamental and Rough on and Buffer off has reached its end
C1_Witness ==
    /\ pc = "final"
    /\ av.PDPg_fundamental = 1 /\ av.PDPg_buffer = 0 /\ av.PDPg_rough = 1
    /\ Entered(1) /\ ~Entered(2) /\ Entered(3)

ActiveCount == Cardinality({v \in DOMAIN Variants : av[ActiveField[Variants[v]]] = 1})

\* C2: at every point of a body execution at most one of the four active
\* flags is 1.
C2_AtMostOneActive == outcome = "running" => ActiveCount <= 1

VariantDataset(name) ==
    IF name \in {"fundamental", "rough"} THEN FundPath ELSE BufPath

\* the variant entered last in the current body execution
LastEntered ==
    LET E == {i \in Events("enter") : log[i].run = runs}
    IN  IF E = {} THEN "none" ELSE log[SetMax(E)].variant

\* C3: once a variant has selected its dataset, and until another variant is
\* entered, dataset_name is that variant's dataset (the fundamental artifact
\* for Fundamental and Rough, the buffer artifact in the results directory
\* for Buffer and Buffer+Rough) and con/tst/poi are the cardinalities the
\* loader returns for that file.
C3_CurrentDataset ==
    (outcome \in {"running", "returned"} /\ selected.run = runs
        /\ LastEntered = selected.variant)
        => /\ av.dataset_name = VariantDataset(selected.variant)
           /\ LET r == read_config_csv(files[av.dataset_name])
              IN  r.ok /\ <<av.con, av.tst, av.poi>> = <<r.con, r.tst, r.poi>>

\* Buffer has finished after Fundamental: poi is five times the source's 2
C3_Witness ==
    /\ outcome = "running"
    /\ pc = "variant" /\ cur = 3
    /\ selected = [run |-> runs, variant |-> "buffer"]
    /\ LastEntered = "buffer"
    /\ Entered(1)
    /\ av.poi = 10

\* C4: every execution of an adapter observes a current dataset selected by
\* the variant that runs it, in the same body execution.
C4_StagesSeeOwnVariant ==
    \A i \in Events("stage") :
        log[i].selected = [run |-> log[i].run, variant |-> log[i].variant]

StageRank ==
    [N_PDP |-> 1, N_VA_HeatMap |-> 2, N_VA_HClust |-> 3, N_VA_Mds |-> 4, N_VA_TopK |-> 5]

\* two adapter executions of the same variant in the same body execution
SameVariant(i, j) ==
    /\ log[i].run = log[j].run
    /\ log[i].variant = log[j].variant
    /\ log[i].variant # "top"

OnlyFundamental ==
    /\ av.PDPg_fundamental = 1
    /\ av.PDPg_buffer = 0
    /\ av.PDPg_rough = 0
    /\ av.PDPg_bufferrough = 0

\* C6: a body execution with only the Fundamental toggle on runs no
\* transform, enters no other variant, changes no file but the fundamental
\* artifact, which exists when the body returns, and runs no adapter twice.
C6_OnlyFundamental ==
    (OnlyFundamental /\ outcome \in {"running", "returned"})
        => /\ \A i \in DOMAIN log :
                 log[i].run = runs
                     => log[i].ev # "transform" /\ log[i].variant \in {"top", "fundamental"}
           /\ \A p \in Paths : files[p] # start_files[p] => p = FundPath
           /\ outcome = "returned" => files[FundPath].exists
           /\ \A i, j \in Events("stage") :
                 (log[i].run = runs /\ log[j].run = runs /\ log[i].name = log[j].name)
                     => i = j

\* the first body execution has returned, has written the artifact and has
\* run a stage adapter
C6_Witness ==
    /\ OnlyFundamental
    /\ outcome = "returned" /\ runs = 1
    /\ files[FundPath] # start_files[FundPath]
    /\ \E i \in Events("stage") : log[i].variant = "fundamental"

\* the Buffer branch has caught the transform's error for an input file
\* that does not exist, as event i of the history
BufferInputMissing(i) ==
    /\ log[i].ev = "transform"
    /\ log[i].variant = "buffer"
    /\ log[i].name = "FileNotFoundError"
    /\ ~files[log[i].dataset].exists
    /\ i < Len(log)
    /\ log[i + 1].ev = "diag" /\ log[i + 1].name = "FileNotFoundError"

\* C7: when the Buffer branch has caught the not-found error of a transform
\* whose input file is missing, no error leaves the body in the rest of that
\* execution: the later variants run and the body is not aborted.
C7_NotFoundConfined ==
    \A i \in DOMAIN log :
        BufferInputMissing(i)
            => \A j \in Events("raise") : j > i => log[j].run # log[i].run

\* C8: no loader, not-found or missing-artifact error leaves the body from
\* the Buffer, Rough or Buffer+Rough branch.
C8_ErrorsCaught ==
    \A i \in Events("raise") :
        log[i].variant \in {"top", "fundamental"} \/ log[i].name = "NameError"

\* the copy or the load of the Fundamental branch fails in this state
FundamentalFails ==
    LET copy == av.dataset_name # FundPath
    IN  \/ copy /\ ~files[av.dataset_name].exists
        \/ ~read_config_csv(IF copy THEN files[av.dataset_name] ELSE files[FundPath]).ok

C9_Step ==
    (pc = "variant" /\ cur = 1 /\ av.PDPg_fundamental = 1 /\ FundamentalFails /\ BodyStep)
        => /\ pc' = "idle"
           /\ outcome' = "raised"
           /\ phase' = "none"
           /\ \A k \in (Len(log) + 1)..Len(log') :
                 log'[k].ev \in {"enter", "raise"} /\ log'[k].variant = "fundamental"

C9_Aborted ==
    \A i \in Events("raise") :
        log[i].variant = "fundamental"
            => /\ \A j \in DOMAIN log : j > i => log[j].run # log[i].run
               /\ log[i].run = runs => pc = "idle" /\ outcome = "raised"

\* C9: a copy or loader error in the Fundamental branch leaves the body: the
\* execution ends there, no later variant is entered, no adapter runs and no
\* completion is printed in that execution, and the host does not reload.
C9_FundamentalErrorAborts == [](C9_Aborted) /\ [][C9_Step]_vars

\* the Fundamental branch has failed in a run that has Buffer switched on
C9_Witness ==
    /\ pc = "idle" /\ outcome = "raised"
    /\ av.PDPg_buffer = 1
    /\ log[Len(log)].ev = "raise" /\ log[Len(log)].variant = "fundamental"

C10_Step ==
    (/\ pc = "stages" /\ stmt <= Len(StageOrder) /\ folder[StageOrder[stmt]] = "absent"
     /\ BodyStep)
        => /\ pc' = "stages" /\ cur' = cur
           /\ stmt' = NextIn(StageOrder, av, stmt + 1)
           /\ outcome' = "running"
           /\ log' = Append(log, Event("diag", Variants[cur], StageOrder[stmt]))

\* C10: at the statement of an enabled stage whose module is not in the SAM
\* folder, in any variant, a warning naming the stage is printed and the
\* body goes on with the variant's next enabled stage.
C10_MissingAdapterSkipped == [][C10_Step]_vars

C11_Once ==
    /\ Cardinality(Events("complete")) <= 1
    /\ \A i \in Events("complete") :
          \A v \in DOMAIN Variants :
              av[ToggleField[Variants[v]]] = 1
                  => \E j \in Events("enter") :
                        j < i /\ log[j].run = log[i].run /\ log[j].variant = Variants[v]

C11_FlagStep ==
    av.moving_objects_printed => Events("complete")' = Events("complete")

\* C11: over all executions of the body in one process the completion is
\* printed at most once, every enabled variant of the printing execution was
\* entered before it, and once the one-shot flag is set no step prints a
\* completion.
C11_CompletionOnce == [](C11_Once) /\ [][C11_FlagStep]_vars

\* a second execution of the body has returned without printing; the first
\* one printed the completion
C11_Witness ==
    /\ runs = 2 /\ outcome = "returned"
    /\ av.moving_objects_printed
    /\ \E i \in Events("complete") : log[i].run = 1
    /\ \E j \in Events("enter") : log[j].run = 2

\* the file the transform reads
BufferInput == IF environ.AV_DATASET = Unset THEN av.dataset_name ELSE environ.AV_DATASET

Cards(a) == <<a.con, a.tst, a.poi>>

\* the Buffer branch is taken in this step
AtBuffer == pc = "variant" /\ cur = 2 /\ av.PDPg_buffer = 1

\* the import statement of this step executes the transform, which returns
TransformRan == "N_T_OB" \notin sys_modules /\ "N_T_OB" \in sys_modules'

C12_Step ==
    (AtBuffer /\ BodyStep) =>
        IF ~files'[BufPath].exists
            THEN /\ pc' = "stages" /\ stmt' = Len(StageOrder) + 1
                 /\ av'.dataset_name = av.dataset_name
                 /\ Cards(av') = Cards(av)
                 /\ selected' = selected
                 /\ log'[Len(log')].ev = "diag" /\ log'[Len(log')].variant = "buffer"
            ELSE (TransformRan /\ read_config_csv(files'[BufPath]).ok)
                    => /\ files'[BufPath] =
                             File(BufferLines(files[BufferInput].rows, av.buffer_x, av.buffer_y))
                       /\ av'.dataset_name = BufPath
                       /\ Cards(av') = <<read_config_csv(files'[BufPath]).con,
                                         read_config_csv(files'[BufPath]).tst,
                                         read_config_csv(files'[BufPath]).poi>>
                       /\ selected' = [run |-> runs, variant |-> "buffer"]

C13_ProducedInThisRun ==
    (selected.run = runs /\ selected.variant \in {"buffer", "bufferrough"})
        => \E j \in Events("transform") : log[j].run = runs /\ log[j].name = "none"

Exact(v) == v

\* record k of the group of the input record l, with the computed fields
\* passed through R
BufferedRecord(l, k, bx, by, R(_)) ==
    <<l[1], l[2], Num(R(l[3].v * 5 + k * Unit)),
      IF k = 0 THEN Num(R(l[4].v - bx * Unit))
      ELSE IF k = 1 THEN Num(R(l[4].v + bx * Unit))
      ELSE l[4],
      IF k = 3 THEN Num(R(l[5].v - by * Unit))
      ELSE IF k = 4 THEN Num(R(l[5].v + by * Unit))
      ELSE l[5]>>

AtLeast5(l) == Len(l) >= 5

\* out is the sequence of groups of five records, one group per record of
\* at least 5 fields of rows, in the order of rows
Quintupled(rows, out, bx, by, R(_)) ==
    LET recs == SelectSeq(rows, AtLeast5)
    IN  /\ Len(out) = 5 * Len(recs)
        /\ \A i \in DOMAIN recs : \A k \in 0..4 :
              out[5 * (i - 1) + k + 1] = BufferedRecord(recs[i], k, bx, by, R)

\* this step executes the transform and keeps the file it has written
TransformWrote ==
    /\ TransformRan
    /\ cur = 2 \/ ResultsDir(environ) = "cwd" \/ ~files[Join("cwd", BufName)].exists

\* C14 as stated: the shifted coordinates are exactly x - buffer_x,
\* x + buffer_x, y - buffer_y, y + buffer_y.
C14_ExactStep ==
    TransformWrote
        => Quintupled(files[BufferInput].rows, files'[BufPath].rows,
                      av.buffer_x, av.buffer_y, Exact)

C14_ExactRecords == [][C14_ExactStep]_vars

C14_RoundedStep ==
    TransformWrote
        => Quintupled(files[BufferInput].rows, files'[BufPath].rows,
                      av.buffer_x, av.buffer_y, Round2)

\* C14: for every input record of at least 5 fields the transform writes
\* 5 contiguous records k = 0..4 with the same (c, t), point id p*5+k and
\* coordinates (x-buffer_x, y), (x+buffer_x, y), (x, y), (x, y-buffer_y),
\* (x, y+buffer_y), groups in input order, where each computed field (the
\* point id and the shifted coordinate) is rounded to 2 decimals and an
\* unshifted coordinate is written as read.
C14_RoundedRecords == [][C14_RoundedStep]_vars

\* the transform has written the group of (0, 0, 0, 10.0, 20.0) for
\* buffer_x = 2, buffer_y = 3, followed by the group of a second record
C14_Witness ==
    /\ av.buffer_x = 2 /\ av.buffer_y = 3
    /\ "N_T_OB" \in sys_modules
    /\ files[BufPath].exists
    /\ Len(files[BufPath].rows) = 10
    /\ SubSeq(files[BufPath].rows, 1, 5) =
          << <<Num(0), Num(0), Num(0), Num(8 * Unit), Num(20 * Unit)>>,
             <<Num(0), Num(0), Num(Unit), Num(12 * Unit), Num(20 * Unit)>>,
             <<Num(0), Num(0), Num(2 * Unit), Num(10 * Unit), Num(20 * Unit)>>,
             <<Num(0), Num(0), Num(3 * Unit), Num(10 * Unit), Num(17 * Unit)>>,
             <<Num(0), Num(0), Num(4 * Unit), Num(10 * Unit), Num(23 * Unit)>> >>

C15_Step ==
    (AtBuffer /\ TransformRan /\ selected' = [run |-> runs, variant |-> "buffer"]
        /\ read_config_csv(files[BufferInput]).ok)
        => /\ av'.poi = 5 * read_config_csv(files[BufferInput]).poi
           /\ av'.con = read_config_csv(files[BufferInput]).con
           /\ av'.tst = read_config_csv(files[BufferInput]).tst
           /\ av'.poi = read_config_csv(files'[av'.dataset_name]).poi

\* C15: when the Buffer branch has run the transform and loaded its
\* artifact, poi is 5 times the poi of the dataset the transform read, con
\* and tst are that dataset's, and poi is the value the loader returns for
\* the artifact.
C15_PoiQuintupled == [][C15_Step]_vars

\* Buffer has just succeeded after Fundamental had loaded poi = 2
C15_Witness ==
    /\ pc = "stages" /\ cur = 2
    /\ selected = [run |-> runs, variant |-> "buffer"]
    /\ log[Len(log)].ev = "transform" /\ log[Len(log)].name = "none"
    /\ log[Len(log)].card = <<1, 1, 2>>
    /\ Cards(av) = <<1, 1, 10>>

C16_Step ==
    TransformWrote
        => files'[BufPath] =
              File(BufferLines(files[BufferInput].rows, av.buffer_x, av.buffer_y))

C17_FundamentalIdempotent ==
    (selected = [run |-> runs, variant |-> "fundamental"])
        => files[FundPath] = files[SourcePath]

\* C18: for every file on disk that holds no record the loader returns
\* con = tst = poi = 0 without raising.
C18_EmptyLoadsAsZero ==
    \A p \in Paths :
        (files[p].exists /\ Len(files[p].rows) = 0)
            => /\ read_config_csv(files[p]).ok
               /\ read_config_csv(files[p]).con = 0
               /\ read_config_csv(files[p]).tst = 0
               /\ read_config_csv(files[p]).poi = 0

----------------------------------------------------------------------------
(* C19: what the loader rejects, and what a rejected load leaves behind *)

\* a file whose column count is not 5, or that holds a cell that is no number
Malformed(f) ==
    /\ f.exists
    /\ Len(f.rows) > 0
    /\ \/ Len(f.rows[1]) # 5
       \/ \E j \in DOMAIN f.rows : \E i \in 1..Len(f.rows[j]) : ~f.rows[j][i].num

C19_Rejects ==
    \A p \in Paths :
        Malformed(files[p])
            => LET r == read_config_csv(files[p])
               IN  /\ ~r.ok
                   /\ Len(files[p].rows[1]) # 5 => r.ncols = Len(files[p].rows[1])

C19_Step ==
    (/\ pc = "variant"
     /\ Toggle(av, cur) = 1
     /\ Malformed(files'[av'.dataset_name]))
        => /\ Cards(av') = Cards(av)
           /\ selected' = selected

\* C19: the loader fails for every file whose column count is not 5, naming
\* that count, and for every file with a cell that is no number; a variant
\* whose dataset is such a file selects nothing and leaves con, tst and poi
\* as they were.
C19_MalformedRejected == [](C19_Rejects) /\ [][C19_Step]_vars

----------------------------------------------------------------------------
(* C20: the results directory at the moment of a write *)

\* the next step imports N_T_OB for the first time, and the module body
\* gets as far as opening its output file
TransformOpensOutput ==
    /\ pc = "variant"
    /\ cur \in {2, 4}
    /\ Toggle(av, cur) = 1
    /\ "N_T_OB" \notin sys_modules
    /\ files[BufferInput].exists
    /\ \A j \in DOMAIN files[BufferInput].rows :
          Len(files[BufferInput].rows[j]) >= 5 => Convertible(files[BufferInput].rows[j])

\* C20: whenever the buffer transform opens its output file in the results
\* directory, that directory exists, for every toggle set and whether or not
\* the directory existed when the process started.
C20_DirExistsAtWrite == TransformOpensOutput => ResultsDir(environ) \in dirs

----------------------------------------------------------------------------
(* C21: cancellation *)

\* C21: once cancellation has been requested no further variant is started
\* (the variant in flight may finish its stages).
C21_Step == stop_requested => Events("enter")' = Events("enter")

C21_CancelAtBoundary == [][C21_Step]_vars

----------------------------------------------------------------------------
(* C22: the active flags *)

Active(v) == av[ActiveField[Variants[v]]]

\* the body is inside the branch of variant v, at one of its stage statements
InVariant(v) == pc = "stages" /\ cur = v /\ stmt < LeaveStmt

\* variant v was entered in this body execution and the body is no longer
\* inside its branch: it went on, returned, or was left by an exception
HasLeft(v) == Entered(v) /\ (cur > v \/ pc \in {"final", "idle"})

\* C22: the active flag of a variant is 1 at every stage statement of that
\* variant and is 0 once the body has left the variant, whether it left by
\* completing, after a caught error, or by an error that propagates.
C22_ActiveWhileRunning ==
    \A v \in DOMAIN Variants :
        /\ InVariant(v) => Active(v) = 1
        /\ HasLeft(v) => Active(v) = 0

----------------------------------------------------------------------------
(* C23: every enabled stage of a variant that selected its dataset *)

\* the body is at the statement of an enabled stage, in a variant that has
\* selected its dataset in this body execution
AtStage ==
    /\ pc = "stages"
    /\ stmt < LeaveStmt
    /\ selected = [run |-> runs, variant |-> Variants[cur]]

C23_Step ==
    (AtStage /\ BodyStep /\ runs = 1 /\ folder[StageOrder[stmt]] # "absent")
        => \/ log' = Append(log, Event("stage", Variants[cur], StageOrder[stmt]))
           \/ folder'[StageOrder[stmt]] = "absent"

\* C23: in the first body execution of a process, for every toggle set, the
\* statement of an enabled stage whose module is in the SAM folder executes
\* that stage against the dataset its variant selected, whether or not an
\* earlier variant has imported the stage.
C23_EveryStageRuns == [][C23_Step]_vars

----------------------------------------------------------------------------
(* C24: the stages of Fundamental in a later body execution *)

C24_Step ==
    (AtStage /\ BodyStep /\ cur = 1 /\ runs > 1 /\ folder[StageOrder[stmt]] = "present")
        => log' = Append(log, Event("stage", "fundamental", StageOrder[stmt]))

\* C24: in a second or later body execution of a process the statement of
\* an enabled stage in the Fundamental branch executes that stage again,
\* against the dataset Fundamental selected in that execution.
C24_FundamentalStagesAgain == [][C24_Step]_vars

----------------------------------------------------------------------------
(* C25: the file the transform reads *)

C25_Step ==
    (AtBuffer /\ TransformRan)
        => \E k \in (Len(log) + 1)..Len(log') :
              /\ log'[k].ev = "transform"
              /\ log'[k].dataset = av.dataset_name

\* C25: the transform the Buffer branch executes reads the file that
\* av.dataset_name names when the branch is entered, whatever the
\* environment holds.
C25_ReadsCurrentDataset == [][C25_Step]_vars

----------------------------------------------------------------------------
(* C26: Rough *)

\* the Rough branch is taken in this step
AtRough == pc = "variant" /\ cur = 3 /\ av.PDPg_rough = 1 /\ BodyStep

C26_Step ==
    AtRough
        => /\ files' = files
           /\ av'.dataset_name = FundPath
           /\ ~files[FundPath].exists
                 => /\ outcome' = "running"
                    /\ pc' = "stages"
                    /\ cur' = cur

\* C26: the Rough branch changes no file and sets the current dataset to the
\* fundamental artifact; with that artifact absent the body stays in
\* execution, so that the later variants and the completion still follow.
C26_RoughFailsSoftly == [][C26_Step]_vars

----------------------------------------------------------------------------
(* C27: Buffer+Rough and the relocation of the buffer artifact *)

\* the Buffer+Rough branch is taken in this step and selects its dataset
BufferRoughSelects ==
    /\ pc = "variant" /\ cur = 4 /\ av.PDPg_bufferrough = 1
    /\ selected' = [run |-> runs, variant |-> "bufferrough"]

C27_Step ==
    BufferRoughSelects
        => /\ av'.dataset_name = BufPath
           /\ Cards(av') = <<read_config_csv(files'[BufPath]).con,
                             read_config_csv(files'[BufPath]).tst,
                             read_config_csv(files'[BufPath]).poi>>
           /\ IF TransformRan
                 THEN files'[BufPath] =
                         File(BufferLines(files[BufferInput].rows, av.buffer_x, av.buffer_y))
                 ELSE files[BufPath].exists => files'[BufPath] = files[BufPath]

\* C27: when Buffer+Rough selects its dataset, the current dataset is the
\* buffer artifact in the results directory, loaded as it is on disk, and
\* that artifact is the one the transform of this step wrote, or else the
\* one that was in the results directory before the step.
C27_RelocationKeepsArtifact == [][C27_Step]_vars

----------------------------------------------------------------------------
(* C28: the rounding of the coordinates written *)

\* a number of at most 2 decimal places
TwoPlaces(c) == c.num /\ c.v % 10 = 0

C28_Step ==
    TransformWrote
        => \A j \in DOMAIN files'[BufPath].rows :
              /\ TwoPlaces(files'[BufPath].rows[j][4])
              /\ TwoPlaces(files'[BufPath].rows[j][5])

\* C28: every x and every y the transform writes has at most 2 decimal
\* places, the coordinate a row leaves unshifted included.
C28_AllCoordinatesRounded == [][C28_Step]_vars

----------------------------------------------------------------------------
(* C29: source rows of fewer than 5 fields *)

\* the next step executes the transform on an input it can read and convert,
\* with a directory to write to
TransformCanRun ==
    /\ TransformOpensOutput
    /\ BodyStep
    /\ ResultsDir(environ) \in dirs

C29_Step ==
    /\ TransformCanRun => TransformRan
    /\ TransformWrote
          => /\ Len(files'[BufPath].rows)
                   = 5 * Len(SelectSeq(files[BufferInput].rows, AtLeast5))
             /\ files'[BufPath].rows
                   = BufferLines(SelectSeq(files[BufferInput].rows, AtLeast5),
                                 av.buffer_x, av.buffer_y)

\* C29: the transform does not fail on a source row of fewer than 5 fields;
\* its output has 5 rows for every source row of at least 5 fields and is
\* the output it writes for the source without the short rows.
C29_ShortRowsSkipped == [][C29_Step]_vars

\* the transform has run on the dataset with a trailing short line and has
\* written the five rows of its one full record
C29_Witness ==
    /\ "N_T_OB" \in sys_modules
    /\ files[SourcePath] = File(TrailRows)
    /\ \E i \in Events("transform") : log[i].name = "none" /\ log[i].dataset = SourcePath
    /\ Len(files[BufPath].rows) = 5
    /\ files[BufPath].rows[3]
          = <<Num(0), Num(0), Num(12 * Unit), Num(10 * Unit), Num(20 * Unit)>>

----------------------------------------------------------------------------
(* C30: the artifact is rewritten in full *)

C30_Step ==
    (TransformWrote /\ files[BufPath].exists)
        => LET derived == BufferLines(files[BufferInput].rows, av.buffer_x, av.buffer_y)
               out == files'[BufPath].rows
           IN  /\ Len(out) = Len(derived)
               /\ \A j \in DOMAIN out : out[j] = derived[j]

\* C30: when the transform runs over an artifact that is already there, the
\* artifact afterwards has as many rows as the transform derives from its
\* input and each of them is a derived row: no row of the earlier artifact
\* is left, whether that artifact was shorter or longer.
C30_FullRewrite == [][C30_Step]_vars

\* the transform has run on a dataset without a full row over an artifact of
\* five rows: the artifact is there and is empty
C30_Witness ==
    /\ "N_T_OB" \in sys_modules
    /\ start_files[BufPath] = File(OldBufRows)
    /\ \E i \in Events("transform") : log[i].name = "none" /\ log[i].run = runs
    /\ files[BufPath] = File(<<>>)

----------------------------------------------------------------------------
(* C31: the loader keeps the order of the records and touches nothing *)

\* record r holds the cells of line l, in their order
SameRecord(r, l) == \A i \in 1..Len(l) : r[i] = l[i]

\* the file the loader is called on is the one dataset_name names
C31_Order ==
    LET f == files[av.dataset_name]
        r == read_config_csv(f)
    IN  r.ok => /\ Len(r.L_dataset) = Len(f.rows)
                /\ \A j \in DOMAIN f.rows : SameRecord(r.L_dataset[j], f.rows[j])

\* the fields a branch assigns itself around its call of the loader
Assigned == {"dataset_name", "con", "tst", "poi",
             "PDPg_fundamental_active", "PDPg_buffer_active",
             "PDPg_rough_active", "PDPg_bufferrough_active"}

\* the Rough branch does nothing but call the loader on the fundamental
\* artifact and assign what it returns
C31_Frame ==
    AtRough
        => /\ files' = files
           /\ \A key \in DOMAIN av \ Assigned : av'[key] = av[key]
           /\ environ' = environ
           /\ read_config_csv(files[FundPath]).ok
                 => Cards(av') = <<read_config_csv(files[FundPath]).con,
                                   read_config_csv(files[FundPath]).tst,
                                   read_config_csv(files[FundPath]).poi>>

----------------------------------------------------------------------------
(* C32: a caught error is printed *)

\* the last line the step has printed is a diagnostic of the variant the
\* body is in
DiagPrinted ==
    /\ Len(log') > Len(log)
    /\ log'[Len(log')].ev = "diag"
    /\ log'[Len(log')].variant = Variants[cur]

\* a variant branch is taken, does not select its dataset and the body goes
\* on: an except clause of the branch has caught an error
CaughtInVariant ==
    /\ BodyStep
    /\ pc = "variant" /\ Toggle(av, cur) = 1
    /\ selected' # [run |-> runs, variant |-> Variants[cur]]
    /\ outcome' = "running"

\* a stage statement neither executes its stage nor raises, although the
\* stage was not executed by an import before: an except clause has caught
\* the error of the import or of the reload
CaughtAtStage ==
    /\ BodyStep
    /\ pc = "stages" /\ stmt < LeaveStmt
    /\ ~(cur = 1 /\ StageOrder[stmt] \in sys_modules)
    /\ \A k \in (Len(log) + 1)..Len(log') : log'[k].ev # "stage"
    /\ outcome' = "running"

C32_Step ==
    /\ CaughtInVariant => DiagPrinted
    /\ CaughtAtStage
          => /\ DiagPrinted
             /\ cur = 1 => log'[Len(log')].name = StageOrder[stmt]

\* C32: whenever an except clause of the body catches an error, of a
\* variant or of the import of a stage, the step prints a diagnostic that
\* names the variant, and for a stage import the stage.
C32_CaughtIsPrinted == [][C32_Step]_vars

\* the Buffer branch has caught an error in its last clause and a stage
\* module was found missing, each with its diagnostic
C32_Witness ==
    /\ \E i \in Events("diag") : log[i].variant = "buffer" /\ log[i].name = "Exception"
    /\ \E i \in Events("diag") :
          log[i].variant = "fundamental" /\ log[i].name \in StageAdapters
    /\ outcome = "running"

----------------------------------------------------------------------------
(* C33: the parameter mapping of the host *)

\* Run Analysis has accepted the request and applied params to av
ParamsApplied ==
    /\ host = "gui"
    /\ requests' = requests + 1
    /\ outcome' # "rejected"

C33_Step ==
    ParamsApplied
        => /\ DOMAIN av' = DOMAIN av
           /\ \A key \in DOMAIN params \ DOMAIN av : key \notin DOMAIN av'
           /\ \A key \in DOMAIN params \cap DOMAIN av : av'[key] = params[key]

\* the variants entered and the stages executed under the host are those
\* switched on in params
C33_Gate ==
    host = "gui"
        => /\ \A i \in Events("enter") : params[ToggleField[log[i].variant]] = 1
           /\ \A i \in Events("stage") : params[log[i].name] = 1
           /\ \A v \in 1..Len(Variants) :
                 Passed(v) /\ params[ToggleField[Variants[v]]] = 1 => Entered(v)

\* C33: applying params creates no field of av and sets every field of av
\* that params names to the value of params; the variants and stages of the
\* run are those whose toggle is 1 in params.
C33_ParamsMapped == [](C33_Gate) /\ [][C33_Step]_vars

\* a run under the host with Buffer switched on and Rough switched off has
\* entered Buffer and passed Rough; results_dir is a key of params only
C33_Witness ==
    /\ host = "gui" /\ phase # "none"
    /\ params.PDPg_buffer = 1 /\ params.PDPg_rough = 0
    /\ "results_dir" \in DOMAIN params \ DOMAIN av
    /\ av.buffer_x = BufX /\ av.buffer_y = BufY
    /\ \E i \in Events("enter") : log[i].variant = "buffer"
    /\ ~(\E i \in Events("enter") : log[i].variant = "rough")
    /\ pc = "final"

----------------------------------------------------------------------------
(* C35: one request, one execution of the body *)

\* C35: under the host the body of the orchestrator has been started at most
\* once per Run Analysis request.
C35_OncePerRequest ==
    host = "gui" => Cardinality(Events("invoke")) <= requests /\ runs <= requests

----------------------------------------------------------------------------
(* C37: the input of the buffer transform *)

IsBufferArtifact(path) == path[2] = BufName

\* no execution of the transform has read a buffer artifact
C37_Inputs == \A i \in Events("transform") : ~IsBufferArtifact(log[i].dataset)

\* the artifact a transform leaves has 5 times the points of its input
C37_Step ==
    /\ TransformRan => ~IsBufferArtifact(BufferInput)
    /\ (TransformWrote /\ read_config_csv(files[BufferInput]).ok)
          => /\ read_config_csv(files'[BufPath]).ok
             /\ read_config_csv(files'[BufPath]).poi
                   = 5 * read_config_csv(files[BufferInput]).poi

----------------------------------------------------------------------------
(* C38: dataset_name and the cardinalities *)

\* the body is between two variants, at its end, or has been left
AtBoundary == pc \in {"variant", "final"} \/ outcome \in {"returned", "raised"}

\* C38: at every variant boundary of a body execution that has entered a
\* variant, and after the body has returned or raised, con, tst and poi are
\* the cardinalities the loader returns for the file dataset_name names.
C38_CardsOfNamedDataset ==
    (AtBoundary /\ \E v \in 1..Len(Variants) : Entered(v))
        => LET r == read_config_csv(files[av.dataset_name])
           IN  r.ok /\ Cards(av) = <<r.con, r.tst, r.poi>>

----------------------------------------------------------------------------
(* C39: the source dataset is left alone *)

\* the dataset the process was started on: the one av names when the body
\* is first invoked
SourceOfProcess == log[1].dataset

C39_Step == log # <<>> => files'[SourceOfProcess] = files[SourceOfProcess]

\* C39: no step of the body or of the transform changes, moves or removes
\* the file the process was started on, wherever that file lies.
C39_SourceUntouched == [][C39_Step]_vars

----------------------------------------------------------------------------
(* C34, C36, C40: the worker threads of the dashboard *)

\* the worker of session s is between setting the environment and the end
\* of the orchestrator
InPipeline(s) == gui.run_thread[s].pc \in {"validated", "saved", "pipeline"}

\* C34: no two workers are in the pipeline at the same time.
C34_OneWorkerInPipeline ==
    \A s, t \in Sessions : (InPipeline(s) /\ InPipeline(t)) => s = t

\* C36: once the worker of a session has ended, the status file of the
\* session holds 'finished' or 'error'.
C36_StatusFinal ==
    \A s \in Sessions :
        gui.run_thread[s].pc = "dead" => gui.status[s] \in {"finished", "error"}

\* C40: when a worker has returned and no worker is alive, sys.stdout and
\* sys.stderr are the streams of the process, every log file a worker had
\* opened is closed and AV_SKIP_LOAD is '1'.
C40_StreamsRestored ==
    (/\ \E s \in Sessions : gui.run_thread[s].pc = "dead"
     /\ \A s \in Sessions : ~Alive(gui.run_thread[s]))
        => /\ gui.sys_stdout = Original
           /\ gui.sys_stderr = Original
           /\ \A s \in Sessions : gui.run_thread[s].log_file # "open"
           /\ gui.AV_SKIP_LOAD = "1"

====
